---- MODULE Spec2Model ----
(***************************************************************************)
(* State-machine model of the cm-python-client data clients:               *)
(*   - CSVFileSplitter      (utils/csv_file_splitter.py)                   *)
(*   - LoadDataClient       (load_data_client.py)                          *)
(*   - DataDumpClient       (data_dump_client.py, the job poller)          *)
(*                                                                         *)
(*   - DataDumpClient       (data_dump_client.py, dump_dataset_to_csv)     *)
(*                                                                         *)
(* Byte sizes are small naturals.  A source file is a sequence of line     *)
(* sizes; line 1 is the header, line i+1 is data row i.  The content of a  *)
(* part file is the sequence of the source line indices written to it, so  *)
(* a lost, duplicated or reordered line is visible.                        *)
(***************************************************************************)
EXTENDS Integers, Sequences, FiniteSets, TLC

\* ---- bounds of the model ----
MaxRows == 3          \* data rows of a source file given to a stand-alone split
MaxUploadRows == 2    \* data rows of a source file given to upload_data
MaxChunk == 3         \* chunk_size (budget / single-part threshold)
MaxTarget == 2        \* target_part_size
MaxParts == 3         \* num_parts asked of a stand-alone split
MaxFetches == 3       \* status fetches of one poll
MaxDeleteFailures == 1  \* deletions that fail in one __exit__

LineSizes == {1, 2}
Timeouts == {0, 1, 2}          \* 0 models timeout=None (falsy in `if timeout`)
Intervals == {0, 1}
Messages == {"m1", "m2"}
NonTerminal == {"RUNNING"}           \* every status but SUCCEEDED and FAILED takes the same branch

VARIABLES
    \* the local file system
    source,          \* the CSV file: sequence of line sizes, <<>> = empty file
    file_exists,     \* os.path.exists(csv_file_path)
    dir_exists,      \* the splitter's temporary directory exists on disk
    files,           \* part number -> content of temp_dir/part_<n>.csv
    exit_warnings,   \* logger.warning calls of the last __exit__
    \* client / splitter configuration
    chunk_size,
    target_part_size,
    \* the stand-alone user of the splitter
    prev,            \* the last split that completed before the current one
    session,         \* "none", "open" (after __enter__), "released" (after __exit__)
    split_in,        \* the value of session when split_file was last called
    \* CSVFileSplitter object and its split_file generator
    temp_dir,        \* "None" or "set"
    gen_pc,          \* "none","created","loop","at_yield_mid","at_yield_last","done","raised"
    gen_running,     \* the consumer called next() and the generator has the control
    gen_err,
    num_parts,
    current_part,
    current_size,
    current_file,    \* 0 = None, else the part number naming the path
    current_writer,  \* "None", "open", "closed"
    open_files,      \* the part files that are open for writing
    row_idx,         \* index in source of the line the row loop is at
    yielded,         \* sequence of the (temp_file_path, part_number) pairs yielded
    \* LoadDataClient.upload_data
    up_pc,
    mode,
    poll_job,
    parts,
    calls,           \* the network calls made, in order
    uploaded_parts,
    upload_response, \* what data_upload returned: "none","links_none","no_self","self"
    up_err,
    \* DataDumpClient.dump_dataset_to_csv
    dump_pc,
    out_file,        \* output_path/<dataset>.csv: "absent", "old", "new", "partial"
    result_url,      \* what the re-fetched status gave for the result link
    dump_err,
    \* the job poller
    poll_pc,
    poll_kind,
    poll_interval,
    timeout,
    elapsed,         \* time.time() - start_time
    fetched,         \* job statuses the fetches returned, in order
    sleeps,
    poll_out,
    \* the dump poller run beside the load poller on the same responses
    d_pc,
    d_elapsed,
    d_fetched,
    d_sleeps,
    d_out

fsVars   == <<source, file_exists, dir_exists, files, exit_warnings>>
cfgVars  == <<chunk_size, target_part_size>>
genVars  == <<gen_pc, gen_running, gen_err, num_parts, current_part, current_size,
              current_file, current_writer, open_files, row_idx, yielded>>
upVars   == <<up_pc, mode, poll_job, parts, calls, uploaded_parts, upload_response, up_err>>
pollVars == <<poll_pc, poll_kind, poll_interval, timeout, elapsed, fetched, sleeps, poll_out>>
userVars == <<prev, session, split_in>>
dumpVars == <<dump_pc, out_file, result_url, dump_err>>
pairVars == <<d_pc, d_elapsed, d_fetched, d_sleeps, d_out>>
vars     == <<fsVars, cfgVars, userVars, dumpVars, pairVars, temp_dir, genVars, upVars, pollVars>>

\* ---- helpers ----
RECURSIVE SumSeq(_)
SumSeq(s) == IF s = <<>> THEN 0 ELSE Head(s) + SumSeq(Tail(s))

SeqsUpTo(S, n) == UNION {[1..k -> S] : k \in 0..n}

\* the files the model draws: empty, or a header and up to n rows
SourceFiles(n) == SeqsUpTo(LineSizes, n + 1)

NoFiles == [p \in {} |-> <<>>]

\* an exception (or a return value of the poller): its type and the backend
\* job message its text carries, "none" when it carries none
Err(type, msg) == [type |-> type, msg |-> msg]
NoError == Err("none", "none")

\* mutant: the part file is opened for appending
WriteFile_Append(fs, p, content) ==
    (p :> (IF p \in DOMAIN fs THEN fs[p] \o content ELSE content)) @@ fs

\* open(path, 'w') then optional writes: creates or truncates the file
WriteFile(fs, p, content) == (p :> content) @@ fs
RemoveFiles(fs, gone) == [q \in (DOMAIN fs) \ gone |-> fs[q]]

(***************************************************************************)
(* CSVFileSplitter                                                         *)
(***************************************************************************)

\* __enter__: tempfile.mkdtemp gives a fresh, empty directory
SplitterEnter ==
    /\ temp_dir' = "set"
    /\ dir_exists' = TRUE
    /\ files' = NoFiles

\* mutant: the release does nothing
SplitterExit_Noop ==
    /\ UNCHANGED <<files, dir_exists, temp_dir>>
    /\ exit_warnings' = 0

\* __exit__: remove every file, then the directory; each failure is logged
\* as a warning and swallowed.  The files of kept are those whose os.remove
\* fails; rmdir fails when a file is left, and may fail on its own.
SplitterExit ==
    IF temp_dir = "set" /\ dir_exists
    THEN \E kept \in SUBSET (DOMAIN files), rmdir_ok \in BOOLEAN :
            /\ Cardinality(kept) <= MaxDeleteFailures
            /\ files' = RemoveFiles(files, (DOMAIN files) \ kept)
            /\ dir_exists' = ~(kept = {} /\ rmdir_ok)
            /\ exit_warnings' = Cardinality(kept) + (IF kept = {} /\ rmdir_ok THEN 0 ELSE 1)
            /\ UNCHANGED temp_dir
    ELSE /\ UNCHANGED <<files, dir_exists, temp_dir>>
         /\ exit_warnings' = 0

\* split_file(file_path, num_parts): creates the generator; the for loop that
\* consumes it calls next() at once
SplitFileCall(n) ==
    /\ gen_pc' = "created"
    /\ gen_running' = TRUE
    /\ gen_err' = "none"
    /\ num_parts' = n
    /\ current_part' = 1
    /\ current_size' = 0
    /\ current_file' = 0
    /\ current_writer' = "None"
    /\ UNCHANGED open_files
    /\ row_idx' = 1
    /\ yielded' = <<>>

\* mutant: close() leaves the file open
CloseWriter_Skip(of, f) == of

\* current_writer.close(), lines 76, 89 and 95, the writer being that of f
CloseWriter(of, f) == of \ {f}

\* mutant: the except clause leaves the current file on disk
GenRaise_KeepFile(err, cf) ==
    /\ gen_pc' = "raised"
    /\ gen_running' = FALSE
    /\ gen_err' = err
    /\ current_file' = cf
    /\ current_writer' = IF current_writer = "None" THEN "None" ELSE "closed"
    /\ open_files' = IF current_writer = "open" THEN CloseWriter(open_files, current_file)
                     ELSE open_files
    /\ UNCHANGED files

\* the except clause of split_file: close the writer, remove the current file
\* (the os.remove of line 97 is taken to succeed), re-raise
GenRaise(err, cf) ==
    /\ gen_pc' = "raised"
    /\ gen_running' = FALSE
    /\ gen_err' = err
    /\ current_file' = cf
    /\ current_writer' = IF current_writer = "None" THEN "None" ELSE "closed"
    /\ open_files' = IF current_writer = "open" THEN CloseWriter(open_files, current_file)
                     ELSE open_files
    /\ files' = IF cf # 0 /\ dir_exists /\ cf \in DOMAIN files
                THEN RemoveFiles(files, {cf}) ELSE files

\* mutant: the last requested part is split too
NeedNewPart_Inclusive(size, row_size, part, n) ==
    size + row_size > chunk_size /\ part <= n

\* mutant: a part that would exactly fill the budget is closed
NeedNewPart_AtBudget(size, row_size, part, n) ==
    size + row_size >= chunk_size /\ part < n

\* mutant: a part is closed only once it is over the budget
NeedNewPart_Late(size, row_size, part, n) ==
    size > chunk_size /\ part < n

\* the test of line 75
NeedNewPart(size, row_size, part, n) ==
    size + row_size > chunk_size /\ part < n

\* what line 80-82 put into a newly opened part before the pending row
NewPartPrefix == <<>>

\* mutant: the splitter does not look whether it was entered
Acquired_Always(td) == TRUE

\* the test of line 49 (`if not self.temp_dir` raises)
Acquired(td) == td # "None"

\* first next(): lines 49-67
SplitStart ==
    /\ gen_pc = "created" /\ gen_running
    /\ IF ~Acquired(temp_dir)
       THEN /\ gen_pc' = "raised"
            /\ gen_running' = FALSE
            /\ gen_err' = "RuntimeError_context_manager"
            /\ UNCHANGED <<files, current_file, current_writer, open_files, current_size, row_idx>>
       ELSE IF ~file_exists
       THEN GenRaise("FileNotFoundError", 0) /\ UNCHANGED <<current_size, row_idx>>
       ELSE IF source = <<>>
       THEN GenRaise("RuntimeError_StopIteration", 0) /\ UNCHANGED <<current_size, row_idx>>
       ELSE IF ~dir_exists
       THEN GenRaise("FileNotFoundError", current_part) /\ UNCHANGED <<current_size, row_idx>>
       ELSE /\ current_file' = current_part
            /\ current_writer' = "open"
            /\ open_files' = open_files \cup {current_part}
            /\ files' = WriteFile(files, current_part, <<1>>)
            /\ current_size' = source[1]
            /\ row_idx' = 2
            /\ gen_pc' = "loop"
            /\ UNCHANGED <<gen_running, gen_err>>
    /\ UNCHANGED <<num_parts, current_part, yielded>>
    /\ UNCHANGED <<source, file_exists, dir_exists, exit_warnings, cfgVars, pairVars, dumpVars, userVars, temp_dir, upVars, pollVars>>

\* one iteration of the row loop, lines 70-85, up to the yield of line 77
SplitRow ==
    /\ gen_pc = "loop" /\ gen_running
    /\ row_idx <= Len(source)
    /\ LET row_size == source[row_idx] IN
       IF NeedNewPart(current_size, row_size, current_part, num_parts)
       THEN /\ current_writer' = "closed"
            /\ open_files' = CloseWriter(open_files, current_file)
            /\ yielded' = Append(yielded, [file |-> current_file, part |-> current_part,
                                           lines |-> files[current_file]])
            /\ gen_pc' = "at_yield_mid"
            /\ gen_running' = FALSE
            /\ UNCHANGED <<files, current_size, row_idx>>
       ELSE /\ files' = [files EXCEPT ![current_file] = Append(@, row_idx)]
            /\ current_size' = current_size + row_size
            /\ row_idx' = row_idx + 1
            /\ UNCHANGED <<current_writer, open_files, yielded, gen_pc, gen_running>>
    /\ UNCHANGED <<gen_err, num_parts, current_part, current_file>>
    /\ UNCHANGED <<source, file_exists, dir_exists, exit_warnings, cfgVars, pairVars, dumpVars, userVars, temp_dir, upVars, pollVars>>

\* next() after the yield of line 77: lines 79-85
SplitResume ==
    /\ gen_pc = "at_yield_mid" /\ gen_running
    /\ current_part' = current_part + 1
    /\ IF ~dir_exists
       THEN /\ GenRaise("FileNotFoundError", current_part + 1)
            /\ UNCHANGED <<current_size, row_idx>>
       ELSE /\ current_file' = current_part + 1
            /\ current_writer' = "open"
            /\ open_files' = open_files \cup {current_part + 1}
            /\ files' = WriteFile(files, current_part + 1, Append(NewPartPrefix, row_idx))
            /\ current_size' = source[1] + source[row_idx]
            /\ row_idx' = row_idx + 1
            /\ gen_pc' = "loop"
            /\ UNCHANGED <<gen_running, gen_err>>
    /\ UNCHANGED <<num_parts, yielded>>
    /\ UNCHANGED <<source, file_exists, dir_exists, exit_warnings, cfgVars, pairVars, dumpVars, userVars, temp_dir, upVars, pollVars>>

\* a read of the source, a write to the open part or its close fails in the
\* row loop (lines 70-89): the except clause of lines 92-98 runs
SplitIOError ==
    /\ gen_pc = "loop" /\ gen_running
    /\ GenRaise("OSError", current_file)
    /\ UNCHANGED <<num_parts, current_part, current_size, row_idx, yielded>>
    /\ UNCHANGED <<source, file_exists, dir_exists, exit_warnings, cfgVars, pairVars, dumpVars, userVars, temp_dir, upVars, pollVars>>

\* the rows are exhausted: lines 88-90
SplitEnd ==
    /\ gen_pc = "loop" /\ gen_running
    /\ row_idx > Len(source)
    /\ current_writer' = "closed"
    /\ open_files' = CloseWriter(open_files, current_file)
    /\ yielded' = Append(yielded, [file |-> current_file, part |-> current_part,
                                   lines |-> files[current_file]])
    /\ gen_pc' = "at_yield_last"
    /\ gen_running' = FALSE
    /\ UNCHANGED <<files, gen_err, num_parts, current_part, current_size, current_file, row_idx>>
    /\ UNCHANGED <<source, file_exists, dir_exists, exit_warnings, cfgVars, pairVars, dumpVars, userVars, temp_dir, upVars, pollVars>>

\* next() after the yield of line 90: the generator returns
SplitFinish ==
    /\ gen_pc = "at_yield_last" /\ gen_running
    /\ gen_pc' = "done"
    /\ gen_running' = FALSE
    /\ UNCHANGED <<files, gen_err, num_parts, current_part, current_size, current_file,
                   current_writer, open_files, row_idx, yielded>>
    /\ UNCHANGED <<source, file_exists, dir_exists, exit_warnings, cfgVars, pairVars, dumpVars, userVars, temp_dir, upVars, pollVars>>

AtYield == gen_pc \in {"at_yield_mid", "at_yield_last"} /\ ~gen_running

(***************************************************************************)
(* A stand-alone user of the splitter                                      *)
(***************************************************************************)
\* what a completed split gave: its N, the content of the parts it yielded,
\* and whether the session it ran in is still the current one
RunOf(n, ys) == [n |-> n, same_session |-> TRUE, parts |-> [i \in 1..Len(ys) |-> ys[i].lines]]
NoRun == [n |-> 0, same_session |-> FALSE, parts |-> <<>>]

InitCommon ==
    /\ dir_exists = FALSE
    /\ files = NoFiles
    /\ exit_warnings = 0
    /\ prev = NoRun /\ session = "none" /\ split_in = "none"
    /\ dump_pc = "idle" /\ result_url = "none" /\ dump_err = NoError
    /\ d_pc = "idle" /\ d_elapsed = 0 /\ d_fetched = <<>> /\ d_sleeps = 0 /\ d_out = NoError
    /\ temp_dir = "None"
    /\ gen_pc = "none" /\ gen_running = FALSE /\ gen_err = "none"
    /\ num_parts = 0 /\ current_part = 0 /\ current_size = 0
    /\ current_file = 0 /\ current_writer = "None" /\ row_idx = 0
    /\ open_files = {}
    /\ yielded = <<>>
    /\ up_pc = "idle" /\ mode = "none" /\ poll_job = FALSE /\ parts = 0
    /\ calls = <<>> /\ uploaded_parts = <<>> /\ upload_response = "none"
    /\ up_err = NoError
    /\ poll_pc = "idle" /\ poll_kind = "none" /\ poll_interval = 0 /\ timeout = 0
    /\ elapsed = 0 /\ fetched = <<>> /\ sleeps = 0 /\ poll_out = NoError

InitSplit ==
    /\ InitCommon
    /\ out_file = "absent"
    /\ source \in SourceFiles(MaxRows)
    /\ file_exists \in BOOLEAN
    /\ chunk_size \in 1..MaxChunk
    /\ target_part_size = 1

\* `with splitter:` is entered, for the first time or again after a split
UserEnter ==
    /\ temp_dir = "None" \/ gen_pc \in {"done", "raised"}
    /\ SplitterEnter
    /\ prev' = [prev EXCEPT !.same_session = FALSE]
    /\ session' = "open"
    /\ UNCHANGED split_in
    /\ UNCHANGED <<source, file_exists, exit_warnings, cfgVars, pairVars, dumpVars, genVars, upVars, pollVars>>

\* split_file is called: for the first time with any N, or, after an earlier
\* split ended, once more with the N of that split
UserSplit ==
    /\ gen_pc \in {"none", "done", "raised"}
    /\ \E n \in (IF gen_pc = "none" THEN 1..MaxParts ELSE {num_parts}) : SplitFileCall(n)
    /\ prev' = IF gen_pc = "done" THEN RunOf(num_parts, yielded) ELSE prev
    /\ split_in' = session
    /\ UNCHANGED session
    /\ UNCHANGED <<fsVars, cfgVars, pairVars, dumpVars, temp_dir, upVars, pollVars>>

\* the body of the user's for loop took the part; the loop calls next()
UserNext ==
    /\ AtYield
    /\ gen_running' = TRUE
    /\ UNCHANGED <<gen_pc, gen_err, num_parts, current_part, current_size, current_file,
                   current_writer, open_files, row_idx, yielded>>
    /\ UNCHANGED <<fsVars, cfgVars, pairVars, dumpVars, userVars, temp_dir, upVars, pollVars>>

UserExit ==
    /\ temp_dir = "set" /\ dir_exists
    /\ gen_pc \in {"done", "raised"}
    /\ SplitterExit
    /\ session' = "released"
    /\ UNCHANGED <<prev, split_in>>
    /\ UNCHANGED <<source, file_exists, cfgVars, pairVars, dumpVars, genVars, upVars, pollVars>>

NextSplit ==
    \/ UserEnter
    \/ UserSplit
    \/ UserNext
    \/ SplitStart
    \/ SplitRow
    \/ SplitResume
    \/ SplitIOError
    \/ SplitEnd
    \/ SplitFinish
    \/ UserExit

SpecSplit == InitSplit /\ [][NextSplit]_vars

(***************************************************************************)
(* The job poller: LoadDataClient.poll_job_status and                      *)
(* DataDumpClient._wait_for_job_completion                                 *)
(***************************************************************************)
DefaultPollInterval == 5

\* the responses of jobs_api.get_job_status: a status with its message, or
\* an exception of the transport
StatusResponses ==
    {[status |-> st, message |-> "none"] : st \in NonTerminal \cup {"SUCCEEDED"}}
    \cup {[status |-> "FAILED", message |-> m] : m \in Messages}
    \cup {[status |-> "ApiException", message |-> "none"]}

\* start_time = time.time()
PollStart(kind, interval, tmo) ==
    /\ poll_pc' = "fetch"
    /\ poll_kind' = kind
    /\ poll_interval' = interval
    /\ timeout' = tmo
    /\ elapsed' = 0
    /\ fetched' = <<>>
    /\ sleeps' = 0
    /\ poll_out' = NoError

\* what the poller does with a terminal status
\* load: lines 341-346 (True / False, the message is only logged);
\* dump: lines 118-124 (return / raise Exception("Job failed: <message>"))
OnSucceeded(kind) == IF kind = "load" THEN Err("True", "none") ELSE Err("None", "none")
OnFailed(kind, message) ==
    IF kind = "load" THEN Err("False", "none") ELSE Err("Exception", message)

IsReturn(out) == out.type \in {"True", "False", "None"}

\* mutant: the FAILED label is misspelt, the status is taken for non-terminal
IsFailedStatus_Typo(st) == st = "FAIL"

\* the elif of line 344 / line 121
IsFailedStatus(st) == st = "FAILED"

\* The clock is read only by the timeout test, and `timeout and ...` does not
\* read it when timeout is None: elapsed is tracked only when a timeout is set.
Durations(tmo, ds) == IF tmo = 0 THEN {0} ELSE ds

\* mutant: a fetch that raised is taken for one more non-terminal status
IsTransportError_Swallowed(r) == FALSE

\* get_job_status raised: nothing catches it in the dump poller (line 115),
\* the load poller logs and re-raises it (lines 354-356)
IsTransportError(r) == r.status = "ApiException"

\* mutant: the timeout is tested before the status, a status that comes
\* back after the timeout is not looked at
BranchStatus_TimeoutFirst(r, tmo, el) ==
    IF tmo # 0 /\ el > tmo THEN "RUNNING" ELSE r.status

\* the if / elif of lines 341-346 (dump: 118-124) come before the timeout
\* test of line 349 (dump: 127) and branch on the status alone
BranchStatus(r, tmo, el) == r.status

\* one get_job_status call and the branch on its status; the call takes d
PollFetchStep ==
    /\ poll_pc = "fetch"
    /\ Len(fetched) < MaxFetches
    /\ \E r \in StatusResponses, d \in Durations(timeout, {0, 1}) :
        /\ fetched' = Append(fetched, r)
        /\ elapsed' = elapsed + d
        /\ IF IsTransportError(r)
           THEN poll_pc' = "raised" /\ poll_out' = Err("ApiException", "none")
           ELSE IF BranchStatus(r, timeout, elapsed') = "SUCCEEDED"
           THEN poll_pc' = "returned" /\ poll_out' = OnSucceeded(poll_kind)
           ELSE IF IsFailedStatus(BranchStatus(r, timeout, elapsed'))
           THEN /\ poll_out' = OnFailed(poll_kind, r.message)
                /\ poll_pc' = IF IsReturn(OnFailed(poll_kind, r.message))
                              THEN "returned" ELSE "raised"
           ELSE poll_pc' = "wait" /\ UNCHANGED poll_out
    /\ UNCHANGED <<poll_kind, poll_interval, timeout, sleeps>>
    /\ UNCHANGED <<fsVars, cfgVars, dumpVars, userVars, temp_dir, genVars, upVars>>

\* the fetch of a poller that runs on its own
PollFetch == PollFetchStep /\ UNCHANGED pairVars

\* mutant: the poll gives up as soon as the timeout is reached
TimedOut_AtLimit(tmo, el) == tmo # 0 /\ el >= tmo

\* mutant: the timeout is never looked at
TimedOut_Never(tmo, el) == FALSE

\* the test of line 349 / line 127
TimedOut(tmo, el) == tmo # 0 /\ el > tmo

\* after a non-terminal status: the timeout check, then time.sleep
PollWaitStep ==
    /\ poll_pc = "wait"
    /\ IF TimedOut(timeout, elapsed)
       THEN /\ poll_pc' = "raised"
            /\ poll_out' = Err("TimeoutError", "none")
            /\ UNCHANGED <<elapsed, sleeps>>
       ELSE /\ poll_pc' = "fetch"
            /\ \E d \in Durations(timeout, {poll_interval}) : elapsed' = elapsed + d
            /\ sleeps' = sleeps + 1
            /\ UNCHANGED poll_out
    /\ UNCHANGED <<poll_kind, poll_interval, timeout, fetched>>
    /\ UNCHANGED <<fsVars, cfgVars, dumpVars, userVars, temp_dir, genVars, upVars>>

\* the timeout check and sleep of a poller that runs on its own
PollWait == PollWaitStep /\ UNCHANGED pairVars

(***************************************************************************)
(* LoadDataClient.upload_data                                              *)
(***************************************************************************)
Modes == {"full", "incremental", "bogus"}

\* mutant: the mode is not validated
ValidMode_Any(m) == TRUE

\* line 73
ValidMode(m) == m = "full" \/ m = "incremental"

\* mutant: a file of exactly the threshold goes the multipart way
SinglePart_Strict(file_size) == file_size < chunk_size

\* line 85
SinglePart(file_size) == file_size <= chunk_size

\* line 90
PartsFor(file_size) == (file_size + target_part_size - 1) \div target_part_size

\* mutant: the part number is used as the index
UrlIndex_OneBased(part_number) == part_number

\* line 198: the (0-based) index in upload_urls of the URL a part goes to
UrlIndex(part_number) == part_number - 1

\* the integrity tag the store returns for a body: a function of the bytes
ETagOf(body) == <<"etag", body>>

\* gzip.compress(file_content)
Gzip(content) == [gzip |-> TRUE, lines |-> content]
Raw(content) == [gzip |-> FALSE, lines |-> content]

Call(op, arg, res) == [op |-> op, arg |-> arg, res |-> res]

\* mutant: the slot response is not searched for its self link
FileUriError_NotLooked(resp) == "none"

\* _get_file_uri_from_response, lines 133-143
FileUriError(resp) ==
    IF resp = "links_none" THEN "No links found in response"
    ELSE IF resp = "no_self" THEN "No file URI found in response"
    ELSE "none"

UpRaise(e) == up_pc' = "raised" /\ up_err' = e

\* upload_data, lines 70-92: the validation and the choice of the strategy
UploadData ==
    /\ up_pc = "idle"
    /\ \E m \in Modes, pj \in BOOLEAN :
        /\ mode' = m
        /\ poll_job' = pj
        /\ IF ~file_exists
           THEN UpRaise(Err("FileNotFoundError", "none")) /\ UNCHANGED parts
           ELSE IF ~ValidMode(m)
           THEN UpRaise(Err("ValueError", "none")) /\ UNCHANGED parts
           ELSE IF SinglePart(SumSeq(source))
           THEN up_pc' = "single_init" /\ UNCHANGED <<parts, up_err>>
           ELSE /\ up_pc' = "multi_init"
                /\ parts' = PartsFor(SumSeq(source))
                /\ UNCHANGED up_err
    /\ UNCHANGED <<calls, uploaded_parts, upload_response>>
    /\ UNCHANGED <<fsVars, cfgVars, pairVars, dumpVars, userVars, temp_dir, genVars, pollVars>>

\* _single_part_upload, line 117: data_upload(project_id)
SingleDataUpload ==
    /\ up_pc = "single_init"
    /\ \E resp \in {"error", "links_none", "no_self", "self"} :
        /\ calls' = Append(calls, Call("data_upload", 0, resp))
        /\ IF resp = "error"
           THEN UpRaise(Err("ApiException", "none")) /\ UNCHANGED upload_response
           ELSE up_pc' = "single_put" /\ upload_response' = resp /\ UNCHANGED up_err
    /\ UNCHANGED <<mode, poll_job, parts, uploaded_parts>>
    /\ UNCHANGED <<fsVars, cfgVars, pairVars, dumpVars, userVars, temp_dir, genVars, pollVars>>

\* _single_part_upload, lines 125-129: _upload_file, then the file reference
SingleUploadFile ==
    /\ up_pc = "single_put"
    /\ \E res \in {"ok", "HTTPError", "ConnectionError"} :
        /\ calls' = Append(calls, Call("put_file", Raw([i \in 1..Len(source) |-> i]), res))
        /\ IF res # "ok"
           THEN UpRaise(Err(res, "none"))
           ELSE IF FileUriError(upload_response) # "none"
           THEN UpRaise(Err(FileUriError(upload_response), "none"))
           ELSE up_pc' = "submit" /\ UNCHANGED up_err
    /\ UNCHANGED <<mode, poll_job, parts, uploaded_parts, upload_response>>
    /\ UNCHANGED <<fsVars, cfgVars, pairVars, dumpVars, userVars, temp_dir, genVars, pollVars>>

\* _multipart_upload, lines 185-195: data_upload(project_id, parts), then the
\* splitter is built and entered and the for loop asks for the first part
MultiDataUpload ==
    /\ up_pc = "multi_init"
    /\ \E resp \in {"error", "links_none", "no_self", "self"} :
        /\ calls' = Append(calls, Call("data_upload", parts, resp))
        /\ IF resp = "error"
           THEN /\ UpRaise(Err("ApiException", "none"))
                /\ UNCHANGED <<upload_response, uploaded_parts, temp_dir, dir_exists, files,
                               genVars>>
           ELSE /\ up_pc' = "multi_loop"
                /\ upload_response' = resp
                /\ uploaded_parts' = <<>>
                /\ SplitterEnter
                /\ SplitFileCall(parts)
                /\ UNCHANGED up_err
    /\ UNCHANGED <<mode, poll_job, parts>>
    /\ UNCHANGED <<source, file_exists, exit_warnings, cfgVars, pairVars, dumpVars, userVars, pollVars>>

\* the responses of the store to the PUT of a part
PutResponses ==
    {[status |-> 200, etag |-> TRUE], [status |-> 200, etag |-> FALSE],
     [status |-> 500, etag |-> FALSE], [status |-> 0, etag |-> FALSE]}  \* 0: no response

\* mutant: a response without ETag is taken for a success
UploadPartError_NoTagCheck(resp) ==
    IF resp.status = 0 THEN "ConnectionError"
    ELSE IF resp.status # 200 THEN "HTTPError"
    ELSE "none"

\* _upload_part, lines 300-313: the error the response leads to, "none" for success
UploadPartError(resp) ==
    IF resp.status = 0 THEN "ConnectionError"
    ELSE IF resp.status # 200 THEN "HTTPError"
    ELSE IF ~resp.etag THEN "ValueError"
    ELSE "none"

\* the body of the for loop, lines 196-205, for the part the splitter yielded
UploadPart ==
    /\ up_pc = "multi_loop"
    /\ AtYield
    /\ LET y == yielded[Len(yielded)]
           body == Gzip(files[y.file])
       IN \E resp \in PutResponses :
           /\ calls' = Append(calls, Call("put_part", [url |-> UrlIndex(y.part), part |-> y.part,
                                                       body |-> body], resp))
           /\ IF UploadPartError(resp) = "none"
              THEN /\ uploaded_parts' = Append(uploaded_parts,
                                               [eTag |-> ETagOf(body), partNumber |-> y.part])
                   /\ gen_running' = TRUE
                   /\ UNCHANGED <<up_pc, up_err>>
              ELSE /\ up_pc' = "multi_failed"
                   /\ up_err' = Err(UploadPartError(resp), "none")
                   /\ UNCHANGED <<uploaded_parts, gen_running>>
    /\ UNCHANGED <<mode, poll_job, parts, upload_response>>
    /\ UNCHANGED <<gen_pc, gen_err, num_parts, current_part, current_size, current_file,
                   current_writer, open_files, row_idx, yielded>>
    /\ UNCHANGED <<fsVars, cfgVars, pairVars, dumpVars, userVars, temp_dir, pollVars>>

\* the end of the with block, line 194: __exit__ runs when the loop is over,
\* when the body raised and when the splitter raised; it never swallows
MultiWithExit ==
    /\ \/ up_pc = "multi_failed"
       \/ up_pc = "multi_loop" /\ ~gen_running /\ gen_pc \in {"done", "raised"}
    /\ SplitterExit
    /\ IF up_pc = "multi_failed"
       THEN up_pc' = "raised" /\ UNCHANGED up_err
       ELSE IF gen_pc = "raised"
       THEN UpRaise(Err(gen_err, "none"))
       ELSE up_pc' = "multi_complete" /\ UNCHANGED up_err
    /\ UNCHANGED <<mode, poll_job, parts, calls, uploaded_parts, upload_response>>
    /\ UNCHANGED <<source, file_exists, cfgVars, pairVars, dumpVars, userVars, genVars, pollVars>>

\* _multipart_upload, lines 208-222: complete_multipart_upload, then the
\* file reference
CompleteMultipart ==
    /\ up_pc = "multi_complete"
    /\ \E res \in {"ok", "ApiException"} :
        /\ calls' = Append(calls, Call("complete_multipart_upload", uploaded_parts, res))
        /\ IF res # "ok"
           THEN UpRaise(Err(res, "none"))
           ELSE IF FileUriError(upload_response) # "none"
           THEN UpRaise(Err(FileUriError(upload_response), "none"))
           ELSE up_pc' = "submit" /\ UNCHANGED up_err
    /\ UNCHANGED <<mode, poll_job, parts, uploaded_parts, upload_response>>
    /\ UNCHANGED <<fsVars, cfgVars, pairVars, dumpVars, userVars, temp_dir, genVars, pollVars>>

\* mutant: the job is waited for whatever the caller asked
ShouldPoll_Always(pj) == TRUE

\* upload_data, line 95: `if poll_job`
ShouldPoll(pj) == pj

\* _submit_data_pull_request, lines 226-230, and lines 95-100 of upload_data
SubmitJob ==
    /\ up_pc = "submit"
    /\ \E res \in {"ok", "ApiException"} :
        /\ calls' = Append(calls, Call("submit_job_execution", mode, res))
        /\ IF res # "ok"
           THEN UpRaise(Err(res, "none")) /\ UNCHANGED pollVars
           ELSE IF ShouldPoll(poll_job)
           THEN /\ up_pc' = "polling"
                /\ PollStart("load", DefaultPollInterval, 0)
                /\ UNCHANGED up_err
           ELSE up_pc' = "returned" /\ UNCHANGED <<up_err, pollVars>>
    /\ UNCHANGED <<mode, poll_job, parts, uploaded_parts, upload_response>>
    /\ UNCHANGED <<fsVars, cfgVars, pairVars, dumpVars, userVars, temp_dir, genVars>>

\* upload_data, lines 96-100: what upload_data does with the poller's result
\* (line 98 raises Exception(f"Job {job_response.id} failed"))
JobFailedError(out) == Err("Exception", "none")

UploadAfterPoll ==
    /\ up_pc = "polling"
    /\ poll_pc \in {"returned", "raised"}
    /\ IF poll_pc = "raised"
       THEN UpRaise(poll_out)
       ELSE IF poll_out.type = "True"
       THEN up_pc' = "returned" /\ UNCHANGED up_err
       ELSE UpRaise(JobFailedError(poll_out))
    /\ UNCHANGED <<mode, poll_job, parts, calls, uploaded_parts, upload_response>>
    /\ UNCHANGED <<fsVars, cfgVars, pairVars, dumpVars, userVars, temp_dir, genVars, pollVars>>

Init ==
    /\ InitCommon
    /\ out_file = "absent"
    /\ source \in SourceFiles(MaxUploadRows)
    /\ file_exists \in BOOLEAN
    /\ chunk_size \in 1..MaxChunk
    /\ target_part_size \in 1..MaxTarget

Next ==
    \/ UploadData
    \/ SingleDataUpload
    \/ SingleUploadFile
    \/ MultiDataUpload
    \/ SplitStart
    \/ SplitRow
    \/ SplitResume
    \/ SplitIOError
    \/ SplitEnd
    \/ SplitFinish
    \/ UploadPart
    \/ MultiWithExit
    \/ CompleteMultipart
    \/ SubmitJob
    \/ PollFetch
    \/ PollWait
    \/ UploadAfterPoll

Spec == Init /\ [][Next]_vars

(***************************************************************************)
(* Direct calls of the two pollers                                         *)
(***************************************************************************)
InitPoll ==
    /\ InitCommon
    /\ out_file = "absent"
    /\ source = <<>>
    /\ file_exists = FALSE
    /\ chunk_size = 1
    /\ target_part_size = 1

\* poll_job_status(job_id, poll_interval, timeout) or
\* _wait_for_job_completion(job_id, poll_interval, timeout)
PollCall ==
    /\ poll_pc = "idle"
    /\ \E k \in {"load", "dump"}, i \in Intervals, t \in Timeouts : PollStart(k, i, t)
    /\ UNCHANGED <<fsVars, cfgVars, pairVars, dumpVars, userVars, temp_dir, genVars, upVars>>

NextPoll ==
    \/ PollCall
    \/ PollFetch
    \/ PollWait

SpecPoll == InitPoll /\ [][NextPoll]_vars

(***************************************************************************)
(* The pollers called with a timeout, under a clock that advances          *)
(***************************************************************************)
\* a poller is called with a positive timeout
PollCallTimed ==
    /\ poll_pc = "idle"
    /\ \E k \in {"load", "dump"}, i \in Intervals, t \in Timeouts \ {0} : PollStart(k, i, t)
    /\ UNCHANGED <<fsVars, cfgVars, pairVars, dumpVars, userVars, temp_dir, genVars, upVars>>

\* a status fetch that returns after a positive time: time.time() is larger
\* after the call than before it
PollFetchTimed == PollFetch /\ elapsed' > elapsed

NextPollLive ==
    \/ PollCallTimed
    \/ PollFetchTimed
    \/ PollWait

\* Once called, the poller's loop runs on: each fetch returns and each sleep
\* ends.  Nothing makes a caller call the poller.
SpecPollLive ==
    /\ InitPoll
    /\ [][NextPollLive]_vars
    /\ WF_vars(PollFetchTimed)
    /\ WF_vars(PollWait)

(***************************************************************************)
(* The two pollers side by side: poll_job_status as above, and             *)
(* _wait_for_job_completion written out from its own source, given the     *)
(* same arguments, the same responses and the same clock                   *)
(***************************************************************************)
\* data_dump_client.py line 112: start_time = time.time()
DumpPollStart ==
    /\ d_pc' = "fetch"
    /\ d_elapsed' = 0
    /\ d_fetched' = <<>>
    /\ d_sleeps' = 0
    /\ d_out' = NoError

\* data_dump_client.py lines 115-124: the fetch, which took d and gave r
\* (or raised), and the branch on the status
DumpPollFetch(r, d) ==
    /\ d_fetched' = Append(d_fetched, r)
    /\ d_elapsed' = d_elapsed + d
    /\ IF r.status = "ApiException"
       THEN d_pc' = "raised" /\ d_out' = Err("ApiException", "none")
       ELSE IF r.status = "SUCCEEDED"
       THEN d_pc' = "returned" /\ d_out' = Err("None", "none")
       ELSE IF r.status = "FAILED"
       THEN d_pc' = "raised" /\ d_out' = Err("Exception", r.message)
       ELSE d_pc' = "wait" /\ UNCHANGED d_out
    /\ UNCHANGED d_sleeps

\* mutant: the dump poller gives up as soon as the timeout is reached
DumpTimedOut_AtLimit(tmo, el) == tmo # 0 /\ el >= tmo

\* data_dump_client.py line 127
DumpTimedOut(tmo, el) == tmo # 0 /\ el > tmo

\* data_dump_client.py lines 127-130: the timeout check, then time.sleep
DumpPollWait ==
    IF DumpTimedOut(timeout, d_elapsed)
    THEN /\ d_pc' = "raised"
         /\ d_out' = Err("TimeoutError", "none")
         /\ UNCHANGED <<d_elapsed, d_fetched, d_sleeps>>
    ELSE /\ d_pc' = "fetch"
         /\ d_elapsed' = d_elapsed + (IF timeout = 0 THEN 0 ELSE poll_interval)
         /\ d_sleeps' = d_sleeps + 1
         /\ UNCHANGED <<d_fetched, d_out>>

\* both pollers are called with the same interval and timeout
PairCall ==
    /\ poll_pc = "idle" /\ d_pc = "idle"
    /\ \E i \in Intervals, t \in Timeouts : PollStart("load", i, t)
    /\ DumpPollStart
    /\ UNCHANGED <<fsVars, cfgVars, dumpVars, userVars, temp_dir, genVars, upVars>>

\* both fetch: the dump poller gets the response and the duration that the
\* load poller got
PairFetch ==
    /\ d_pc = "fetch"
    /\ PollFetchStep
    /\ DumpPollFetch(fetched'[Len(fetched')], elapsed' - elapsed)

\* both make their timeout check and sleep
PairWait ==
    /\ d_pc = "wait"
    /\ PollWaitStep
    /\ DumpPollWait

NextPair ==
    \/ PairCall
    \/ PairFetch
    \/ PairWait

SpecPair == InitPoll /\ [][NextPair]_vars

(***************************************************************************)
(* DataDumpClient.dump_dataset_to_csv                                      *)
(***************************************************************************)
DumpRaise(e) == dump_pc' = "raised" /\ dump_err' = e

upFrame == <<up_pc, mode, poll_job, parts, uploaded_parts, upload_response, up_err>>

\* line 50: os.makedirs(output_path, exist_ok=True), before any request
DumpCall ==
    /\ dump_pc = "idle"
    /\ \E mk \in {"ok", "OSError"} :
        IF mk = "ok"
        THEN dump_pc' = "submit" /\ UNCHANGED dump_err
        ELSE DumpRaise(Err(mk, "none"))
    /\ UNCHANGED <<out_file, result_url, calls, upFrame>>
    /\ UNCHANGED <<fsVars, cfgVars, pairVars, userVars, temp_dir, genVars, pollVars>>

\* lines 68-74: the job is submitted, then _wait_for_job_completion(job_id,
\* poll_interval) starts, without a timeout
DumpSubmit ==
    /\ dump_pc = "submit"
    /\ \E res \in {"ok", "ApiException"}, i \in Intervals :
        /\ calls' = Append(calls, Call("submit_job_execution", "dataDump", res))
        /\ IF res # "ok"
           THEN DumpRaise(Err(res, "none")) /\ UNCHANGED pollVars
           ELSE /\ dump_pc' = "polling"
                /\ PollStart("dump", i, 0)
                /\ UNCHANGED dump_err
    /\ UNCHANGED <<out_file, result_url, upFrame>>
    /\ UNCHANGED <<fsVars, cfgVars, pairVars, userVars, temp_dir, genVars>>

\* what the re-fetched status holds as its result
RefetchResults == {"ApiException", "result_none", "no_links", "links_empty", "no_href", "href"}

\* mutant: whatever the re-fetched status holds is taken for a link
ResultUrlError_Ignored(r) == "none"

\* lines 77-83: the error the re-fetch ends in, "none" when it gave a link
\* (job_status.result.get("links")[0].get("href"), then `if not result_url`)
ResultUrlError(r) ==
    IF r = "ApiException" THEN "ApiException"
    ELSE IF r = "result_none" THEN "AttributeError"
    ELSE IF r = "no_links" THEN "TypeError"
    ELSE IF r = "links_empty" THEN "IndexError"
    ELSE IF r = "no_href" THEN "Exception"
    ELSE "none"

\* lines 74-83: the poller is over; its error goes up, else the status is
\* fetched once more for the result link
DumpAfterPoll ==
    /\ dump_pc = "polling"
    /\ poll_pc \in {"returned", "raised"}
    /\ IF poll_pc = "raised"
       THEN DumpRaise(poll_out) /\ UNCHANGED <<calls, result_url>>
       ELSE \E r \in RefetchResults :
               /\ calls' = Append(calls, Call("get_job_status", "dataDump", r))
               /\ result_url' = r
               /\ IF ResultUrlError(r) # "none"
                  THEN DumpRaise(Err(ResultUrlError(r), "none"))
                  ELSE dump_pc' = "download" /\ UNCHANGED dump_err
    /\ UNCHANGED <<out_file, upFrame>>
    /\ UNCHANGED <<fsVars, cfgVars, pairVars, userVars, temp_dir, genVars, pollVars>>

\* mutant: the response is written whatever its status
DownloadFailed_Unchecked(resp) == FALSE

\* _download_file, lines 155-156: requests.get raised or raise_for_status did
DownloadFailed(resp) == resp # "ok"

\* lines 88-92 and _download_file, lines 147-166: GET, raise_for_status,
\* then open(local_filename, 'wb') and write; every failure is re-raised as
\* Exception("Failed to download file: ...")
DumpDownload ==
    /\ dump_pc = "download"
    /\ \E resp \in {"ok", "HTTPError", "ConnectionError"},
          w \in {"ok", "open_fails", "write_fails"} :
        /\ calls' = Append(calls, Call("download", result_url, resp))
        /\ IF DownloadFailed(resp)
           THEN DumpRaise(Err("Exception", "none")) /\ UNCHANGED out_file
           ELSE IF w = "ok"
           THEN dump_pc' = "returned" /\ out_file' = "new" /\ UNCHANGED dump_err
           ELSE /\ DumpRaise(Err("Exception", "none"))
                /\ out_file' = IF w = "open_fails" THEN out_file ELSE "partial"
    /\ UNCHANGED <<result_url, upFrame>>
    /\ UNCHANGED <<fsVars, cfgVars, pairVars, userVars, temp_dir, genVars, pollVars>>

InitDump ==
    /\ InitCommon
    /\ out_file \in {"absent", "old"}
    /\ source = <<>>
    /\ file_exists = FALSE
    /\ chunk_size = 1
    /\ target_part_size = 1

NextDump ==
    \/ DumpCall
    \/ DumpSubmit
    \/ PollFetch
    \/ PollWait
    \/ DumpAfterPoll
    \/ DumpDownload

SpecDump == InitDump /\ [][NextDump]_vars

(***************************************************************************)
(* Properties                                                              *)
(***************************************************************************)
CallsOf(op) == SelectSeq(calls, LAMBDA c : c.op = op)

\* ceil(s / p), stated without the code's arithmetic
CeilDiv(s, p) == CHOOSE n \in 0..s : n * p >= s /\ (n - 1) * p < s

\* the data rows among the lines of a part (line 1 of the source is the header)
DataRows(lines) == SelectSeq(lines, LAMBDA l : l # 1)

RECURSIVE ConcatRows(_)
ConcatRows(ys) ==
    IF ys = <<>> THEN <<>> ELSE DataRows(Head(ys).lines) \o ConcatRows(Tail(ys))

\* the byte size of a part with these lines
PartBytes(content) == SumSeq([i \in 1..Len(content) |-> source[content[i]]])

\* the whole source file, line by line
AllLines == [i \in 1..Len(source) |-> i]

\* a PUT of a part that did not succeed: no response, a status other than
\* 200, or no integrity tag in the response
PartFailed(c) == c.op = "put_part" /\ (c.res.status # 200 \/ ~c.res.etag)

\* C1: in a multipart upload the completion request is only sent when
\* exactly N = parts (partNumber, tag) pairs were collected, the part
\* uploader having been called N times with the part numbers 1..N.
C1_CompletionHasAllParts ==
    \A i \in DOMAIN calls :
        calls[i].op = "complete_multipart_upload" =>
            /\ Len(calls[i].arg) = parts
            /\ Len(CallsOf("put_part")) = parts
            /\ \A k \in 1..Len(CallsOf("put_part")) : CallsOf("put_part")[k].arg.part = k

\* C2: a file of size s <= chunk_size takes the single-part path (one slot
\* requested without a part count, no splitter, no completion call); s >
\* chunk_size takes the multipart path with parts = ceil(s / target_part_size),
\* the same count going to the slot request and to the splitter.
C2_StrategySelection ==
    (up_pc # "idle" /\ file_exists /\ mode \in {"full", "incremental"}) =>
        LET s == SumSeq(source) IN
        IF s <= chunk_size
        THEN /\ up_pc \in {"single_init", "single_put", "submit", "polling", "returned", "raised"}
             /\ gen_pc = "none" /\ temp_dir = "None"
             /\ CallsOf("complete_multipart_upload") = <<>>
             /\ CallsOf("put_part") = <<>>
             /\ Len(CallsOf("data_upload")) <= 1
             /\ up_pc # "single_init" => Len(CallsOf("data_upload")) = 1
             /\ \A i \in DOMAIN calls : calls[i].op = "data_upload" => calls[i].arg = 0
        ELSE /\ up_pc \in {"multi_init", "multi_loop", "multi_failed", "multi_complete",
                           "submit", "polling", "returned", "raised"}
             /\ parts = CeilDiv(s, target_part_size)
             /\ CallsOf("put_file") = <<>>
             /\ Len(CallsOf("data_upload")) <= 1
             /\ up_pc # "multi_init" => Len(CallsOf("data_upload")) = 1
             /\ \A i \in DOMAIN calls : calls[i].op = "data_upload" => calls[i].arg = parts
             /\ gen_pc # "none" => num_parts = parts

\* C2 witness: a file one byte over the threshold went the multipart way to
\* its completion request
C2_Witness ==
    /\ SumSeq(source) = chunk_size + 1
    /\ up_pc = "submit"
    /\ Len(CallsOf("complete_multipart_upload")) = 1
    /\ num_parts = parts

\* C3: once the upload of a part failed (no response, a non-success status,
\* or a success response without a tag) the call ends with that error: the
\* failed PUT is the last network call (no further part, no completion, no
\* job) and no status is fetched.
C3_PartFailureAborts ==
    \A i \in DOMAIN calls :
        PartFailed(calls[i]) =>
            /\ i = Len(calls)
            /\ up_pc \in {"multi_failed", "raised"}
            /\ up_err.type = (IF calls[i].res.status = 0 THEN "ConnectionError"
                              ELSE IF calls[i].res.status # 200 THEN "HTTPError"
                              ELSE "ValueError")
            /\ CallsOf("complete_multipart_upload") = <<>>
            /\ CallsOf("submit_job_execution") = <<>>
            /\ fetched = <<>> /\ poll_pc = "idle"
            /\ Len(uploaded_parts) = Len(CallsOf("put_part")) - 1

\* C3 witness: the second part's response lacked the tag while the splitter
\* still had rows to emit, and the call has raised
C3_Witness ==
    /\ up_pc = "raised"
    /\ Len(uploaded_parts) = 1
    /\ gen_pc = "at_yield_mid"
    /\ PartFailed(calls[Len(calls)])
    /\ calls[Len(calls)].res = [status |-> 200, etag |-> FALSE]

\* C4: the k-th PUT of a part carries part number k and goes to the k-th
\* presigned URL (index k-1), and the list sent at completion is the
\* (tag, partNumber) pairs of these PUTs in the same order, the part numbers
\* strictly increasing.
C4_PartOrder ==
    LET puts == CallsOf("put_part") IN
    /\ \A k \in 1..Len(puts) : puts[k].arg.part = k /\ puts[k].arg.url = k - 1
    /\ \A i \in DOMAIN calls :
        calls[i].op = "complete_multipart_upload" =>
            /\ calls[i].arg = [k \in 1..Len(puts) |->
                                 [eTag |-> ETagOf(puts[k].arg.body), partNumber |-> k]]
            /\ \A k \in 1..(Len(calls[i].arg) - 1) :
                   calls[i].arg[k].partNumber < calls[i].arg[k + 1].partNumber

\* C4 witness: a completion request carrying three pairs
C4_Witness ==
    \E i \in DOMAIN calls :
        calls[i].op = "complete_multipart_upload" /\ Len(calls[i].arg) = 3

\* C5: with a load mode outside {full, incremental} or a missing file,
\* upload_data fails with a validation error and makes no network call: no
\* slot request, no PUT, no completion, no job, no status fetch.
C5_ValidationBeforeNetwork ==
    (up_pc # "idle" /\ (~file_exists \/ mode \notin {"full", "incremental"})) =>
        /\ up_pc = "raised"
        /\ up_err.type = (IF ~file_exists THEN "FileNotFoundError" ELSE "ValueError")
        /\ calls = <<>>
        /\ fetched = <<>> /\ poll_pc = "idle"
        /\ gen_pc = "none" /\ temp_dir = "None"

\* C5 witness: an existing file, a bad mode, the call has raised
C5_Witness ==
    up_pc = "raised" /\ file_exists /\ mode = "bogus" /\ up_err.type = "ValueError"

\* C6: every emitted part starts with the source header line, and the data
\* rows of the parts, concatenated in part order, are the source rows in
\* source order.
C6_HeaderAndRowsPreserved ==
    gen_pc = "done" =>
        /\ \A i \in 1..Len(yielded) :
               yielded[i].lines # <<>> /\ yielded[i].lines[1] = 1
        /\ ConcatRows(yielded) = [j \in 1..(Len(source) - 1) |-> j + 1]

\* C7: the emitted part numbers are 1, 2, ..., k in this order, k <= N, and
\* k >= 1 when the split completes; no part is closed for size once part N
\* is open, and part N holds every row from its first one to the last row of
\* the file.
C7_PartNumbers ==
    gen_pc # "none" =>
        /\ \A i \in 1..Len(yielded) : yielded[i].part = i
        /\ Len(yielded) <= num_parts
        /\ gen_pc = "done" => Len(yielded) >= 1
        /\ gen_pc = "at_yield_mid" => current_part < num_parts
        /\ (gen_pc \in {"at_yield_last", "done"} /\ Len(yielded) = num_parts) =>
               LET d == DataRows(yielded[num_parts].lines) IN
               /\ \A j \in 1..(Len(d) - 1) : d[j + 1] = d[j] + 1
               /\ d # <<>> => d[Len(d)] = Len(source)

\* C7 witness: a completed split that used all N >= 2 parts, the last one
\* grown past the budget
C7_Witness ==
    /\ gen_pc = "done"
    /\ num_parts >= 2
    /\ Len(yielded) = num_parts
    /\ PartBytes(yielded[num_parts].lines) > chunk_size
    /\ Len(DataRows(yielded[num_parts].lines)) >= 2

\* C8 (as stated): if the data rows alone, the header excluded, are smaller
\* than the budget, the split yields exactly one part with the header and
\* all rows.
C8_RowsBelowBudgetOnePart ==
    (gen_pc = "done" /\ SumSeq(Tail(source)) < chunk_size) =>
        Len(yielded) = 1 /\ yielded[1].lines = AllLines

\* C8 (amended): if the header plus the data rows are at most the budget,
\* the split yields exactly one part with the header and all rows.
C8_FileWithinBudgetOnePart ==
    (gen_pc = "done" /\ SumSeq(source) <= chunk_size) =>
        Len(yielded) = 1 /\ yielded[1].lines = AllLines

\* C8 witness: a file of exactly the budget, with rows, split for N >= 2
C8_Witness ==
    /\ gen_pc = "done"
    /\ SumSeq(source) = chunk_size
    /\ Len(source) >= 3
    /\ num_parts >= 2
    /\ Len(yielded) = 1

IsTerminal(r) == r.status \in {"SUCCEEDED", "FAILED"}

\* C9: without a timeout, a terminal status is only ever the last status
\* fetched: the poll ends at the first terminal status, reports it, and has
\* slept once between each two consecutive fetches and not after the last.
C9_PollStopsAtFirstTerminal ==
    (poll_pc # "idle" /\ timeout = 0) =>
        LET n == Len(fetched) IN
        /\ \A i \in 1..(n - 1) : ~IsTerminal(fetched[i])
        /\ poll_pc = "fetch" => sleeps = n
        /\ poll_pc # "fetch" => n >= 1 /\ sleeps = n - 1
        /\ (n >= 1 /\ IsTerminal(fetched[n])) =>
               /\ poll_pc \in {"returned", "raised"}
               /\ fetched[n].status = "SUCCEEDED" =>
                      poll_pc = "returned" /\ poll_out.type \in {"True", "None"}
               /\ fetched[n].status = "FAILED" =>
                      IF poll_kind = "load"
                      THEN poll_pc = "returned" /\ poll_out.type = "False"
                      ELSE poll_pc = "raised" /\ poll_out.type = "Exception"

\* C9 witness: [RUNNING, RUNNING, SUCCEEDED] gave success after 3 fetches
\* and 2 sleeps
C9_Witness ==
    /\ timeout = 0
    /\ poll_pc = "returned"
    /\ Len(fetched) = 3
    /\ fetched[1].status = "RUNNING" /\ fetched[2].status = "RUNNING"
    /\ fetched[3].status = "SUCCEEDED"
    /\ sleeps = 2

\* C10: when upload_data waited and the poller saw FAILED, the call ends
\* with an error that carries the backend's job message.
C10_FailedJobErrorCarriesMessage ==
    (up_pc \in {"returned", "raised"} /\ fetched # <<>>
        /\ fetched[Len(fetched)].status = "FAILED") =>
        /\ up_pc = "raised"
        /\ up_err.msg = fetched[Len(fetched)].message

\* the poll has ended: it returned or raised
PollEnded == poll_pc \in {"returned", "raised"}

\* C11: a poll with a positive timeout that ended having fetched only
\* non-terminal statuses ended in TimeoutError, an outcome that is none of
\* the outcomes of a failed job; a TimeoutError is only there when the poll
\* has raised (no fetch follows), the last status fetched was non-terminal
\* and the elapsed time was above the timeout.
C11_TimeoutOutcome ==
    /\ (PollEnded /\ timeout > 0
            /\ \A i \in DOMAIN fetched : fetched[i].status \in NonTerminal) =>
           poll_out.type = "TimeoutError"
    /\ poll_out.type = "TimeoutError" =>
           /\ poll_pc = "raised"
           /\ poll_out # OnFailed(poll_kind, "m1") /\ poll_out # OnFailed(poll_kind, "m2")
           /\ timeout > 0 /\ elapsed > timeout
           /\ fetched # <<>>
           /\ fetched[Len(fetched)].status \in NonTerminal
           /\ sleeps = Len(fetched) - 1

\* C11 witness: timeout 1, two non-terminal statuses one sleep apart, then
\* the TimeoutError
C11_Witness ==
    /\ timeout = 1
    /\ poll_pc = "raised" /\ poll_out.type = "TimeoutError"
    /\ Len(fetched) = 2 /\ sleeps = 1
    /\ \A i \in DOMAIN fetched : fetched[i].status = "RUNNING"

\* C12: a split asked of a splitter that never acquired its directory ends,
\* at its first step, with the usage error; it yields no part and creates no
\* part file.
C12_SplitWithoutAcquire ==
    (temp_dir = "None" /\ gen_pc \notin {"none", "created"}) =>
        /\ gen_pc = "raised"
        /\ gen_err = "RuntimeError_context_manager"
        /\ yielded = <<>>
        /\ files = NoFiles /\ ~dir_exists
        /\ current_file = 0 /\ current_writer = "None"

\* C12 witness: an existing file with rows, a splitter never entered, the
\* split has raised
C12_Witness ==
    /\ temp_dir = "None"
    /\ file_exists /\ Len(source) >= 2
    /\ gen_pc = "raised" /\ gen_err = "RuntimeError_context_manager"

\* upload_data is over: it returned or raised
UploadOver == up_pc \in {"returned", "raised"}

\* C13: once upload_data is over after a multipart session was opened, the
\* release has run: unless it logged a failed deletion, no part file and no
\* directory of the session is left; and whatever the release logged, the
\* call's outcome is the upload's own: the error of the failed PUT, the
\* error of the splitter, or, all parts being up, the completion request
\* was sent.
C13_ReleaseOnEveryPath ==
    (UploadOver /\ temp_dir = "set") =>
        /\ exit_warnings = 0 => (files = NoFiles /\ ~dir_exists)
        /\ exit_warnings > 0 => dir_exists
        /\ \A i \in DOMAIN calls :
               PartFailed(calls[i]) =>
                   up_pc = "raised" /\ up_err.type \in {"ConnectionError", "HTTPError", "ValueError"}
        /\ gen_pc = "raised" => (up_pc = "raised" /\ up_err.type = gen_err)
        /\ gen_pc = "done" => Len(CallsOf("complete_multipart_upload")) = 1

\* C13 witness: the second part's PUT failed, the release met no failure,
\* the call has raised and nothing of the session is left
C13_Witness ==
    /\ up_pc = "raised" /\ temp_dir = "set"
    /\ Len(uploaded_parts) = 1 /\ PartFailed(calls[Len(calls)])
    /\ exit_warnings = 0
    /\ files = NoFiles /\ ~dir_exists

\* C13 witness of the logged failure: every part went up, one deletion
\* failed in the release, and the upload went on to its job
C13_WitnessLogged ==
    /\ up_pc = "returned" /\ temp_dir = "set"
    /\ exit_warnings = 2 /\ dir_exists /\ files # NoFiles

\* C14: a split that completes after an earlier completed split of the same
\* file, with the same budget and the same N, yields as many parts, and
\* part i has the same lines (header and rows) as part i of the earlier one.
C14_SplitRepeatable ==
    (gen_pc = "done" /\ prev # NoRun /\ prev.n = num_parts) =>
        /\ Len(yielded) = Len(prev.parts)
        /\ \A i \in 1..Len(yielded) : yielded[i].lines = prev.parts[i]

\* C14 witness: a second split in the session of the first, both with N >= 2
\* and two parts or more
C14_Witness ==
    /\ gen_pc = "done" /\ prev # NoRun /\ prev.n = num_parts
    /\ prev.same_session
    /\ num_parts >= 2 /\ Len(yielded) >= 2

\* C14 witness with the second split in a later session
C14_WitnessLaterSession ==
    /\ gen_pc = "done" /\ prev # NoRun /\ prev.n = num_parts
    /\ ~prev.same_session
    /\ num_parts >= 2 /\ Len(yielded) >= 2

\* dump_dataset_to_csv is over: it returned or raised
DumpOver == dump_pc \in {"returned", "raised"}

\* the output file is as it was before the dump
OutFileUntouched == out_file \in {"absent", "old"}

LastFetched == fetched[Len(fetched)]

\* C15: the dump makes its requests in the order submit, status polls,
\* re-fetch, download, each at most once apart from the polls; the re-fetch
\* is only made after the poller returned on SUCCEEDED, the download only
\* after a re-fetch that carried a link, and the output file is only written
\* from a download that was answered; a dump whose job FAILED or whose
\* re-fetch carried no link has raised, without download and without write.
C15_DumpOrder ==
    LET sub == CallsOf("submit_job_execution")
        ref == CallsOf("get_job_status")
        dl  == CallsOf("download")
    IN
    /\ Len(calls) <= 3
    /\ \A i \in DOMAIN calls :
           calls[i].op = <<"submit_job_execution", "get_job_status", "download">>[i]
    /\ fetched # <<>> => (sub # <<>> /\ sub[1].res = "ok")
    /\ ref # <<>> =>
           /\ poll_pc = "returned"
           /\ fetched # <<>> /\ LastFetched.status = "SUCCEEDED"
    /\ dl # <<>> => (ref # <<>> /\ ref[1].res = "href")
    /\ ~OutFileUntouched => (dl # <<>> /\ dl[1].res = "ok")
    /\ (fetched # <<>> /\ LastFetched.status = "FAILED" /\ dump_pc # "polling") =>
           /\ dump_pc = "raised"
           /\ ref = <<>> /\ dl = <<>> /\ OutFileUntouched
    /\ (ref # <<>> /\ ref[1].res # "href") =>
           /\ dump_pc = "raised"
           /\ dl = <<>> /\ OutFileUntouched

\* C15 witness: RUNNING, then SUCCEEDED, a re-fetch with a link, and the
\* file written
C15_Witness ==
    /\ dump_pc = "returned" /\ out_file = "new"
    /\ Len(fetched) = 2 /\ fetched[1].status = "RUNNING"
    /\ Len(calls) = 3

\* C15 witness of the dump that fails for want of a link
C15_WitnessNoLink ==
    /\ dump_pc = "raised" /\ result_url = "no_href"
    /\ fetched # <<>> /\ LastFetched.status = "SUCCEEDED"
    /\ Len(calls) = 2 /\ OutFileUntouched

\* the byte size the claims give a part: the header plus the part's rows
HeaderPlusRows(lines) == source[1] + PartBytes(DataRows(lines))

\* C16 (as stated): every emitted part with a part number below N has a
\* byte size, header plus rows, of at most the budget.
C16_PartsWithinBudget ==
    \A i \in 1..Len(yielded) :
        yielded[i].part < num_parts => HeaderPlusRows(yielded[i].lines) <= chunk_size

\* C16 (amended): an emitted part with a part number below N is within the
\* budget, header plus rows, unless it is part 1 holding the header alone or
\* a later part holding a single row: the header and the first row of a
\* part are written whatever their size.
C16_PartsWithinBudgetUnlessFirstRow ==
    \A i \in 1..Len(yielded) :
        yielded[i].part < num_parts =>
            LET d == DataRows(yielded[i].lines) IN
            \/ /\ HeaderPlusRows(yielded[i].lines) <= chunk_size
               /\ PartBytes(yielded[i].lines) <= chunk_size
            \/ yielded[i].part = 1 /\ d = <<>>
            \/ yielded[i].part > 1 /\ Len(d) = 1

\* C16 witness: part 1 of N >= 2 closed with two rows at exactly the budget,
\* and the split completed with a second part
C16_Witness ==
    /\ gen_pc = "done" /\ Len(yielded) = 2 /\ num_parts >= 2
    /\ Len(DataRows(yielded[1].lines)) = 2
    /\ HeaderPlusRows(yielded[1].lines) = chunk_size

\* C17: at most one part file is open at any point of a split; while a part
\* is with the caller no part file is open and its writer is closed; a file
\* is open only while the generator runs its row loop, and it is the
\* current part's, never one that was yielded.
C17_OneOpenPartFile ==
    /\ Cardinality(open_files) <= 1
    /\ gen_pc \in {"at_yield_mid", "at_yield_last"} =>
           (open_files = {} /\ current_writer = "closed")
    /\ open_files # {} =>
           /\ gen_running /\ gen_pc = "loop"
           /\ open_files = {current_file} /\ current_file = current_part
           /\ \A i \in 1..Len(yielded) : yielded[i].file \notin open_files

\* C17 witness: the caller holds the second part, closed, and a third is
\* still to come
C17_Witness ==
    /\ gen_pc = "at_yield_mid" /\ ~gen_running
    /\ Len(yielded) = 2 /\ current_part = 2
    /\ open_files = {}

\* C17 witness of the open file: the third part is being written after two
\* were yielded
C17_WitnessOpen ==
    /\ gen_pc = "loop" /\ Len(yielded) = 2
    /\ open_files = {3}

\* C18: after a read or write failure in the row loop the split has raised
\* that failure, the part file that was open is closed and no longer on
\* disk, and as long as the session is not released every part yielded
\* before is on disk with the content it was yielded with; the upload that
\* ran the split ends with the same failure.
C18_FailureMidSplit ==
    gen_err = "OSError" =>
        /\ gen_pc = "raised" /\ ~gen_running
        /\ open_files = {} /\ current_writer = "closed"
        /\ current_file \notin DOMAIN files
        /\ up_pc = "multi_loop" =>
               \A i \in 1..Len(yielded) :
                   /\ yielded[i].file \in DOMAIN files
                   /\ files[yielded[i].file] = yielded[i].lines
        /\ up_pc # "multi_loop" => (up_pc = "raised" /\ up_err.type = "OSError")

\* C18 witness: the failure came while the second part was written; the
\* first part is on disk and the session is not yet released
C18_Witness ==
    /\ gen_err = "OSError" /\ up_pc = "multi_loop"
    /\ Len(yielded) = 1 /\ current_file = 2
    /\ DOMAIN files = {1}

\* C19: a status fetch that raised a transport error is the last fetch of
\* its poll: the poll has raised that error, and no sleep followed the
\* fetch (one sleep after each earlier fetch, none after this one).
C19_TransportErrorEndsPoll ==
    \A i \in DOMAIN fetched :
        fetched[i].status = "ApiException" =>
            /\ i = Len(fetched)
            /\ poll_pc = "raised"
            /\ poll_out = Err("ApiException", "none")
            /\ sleeps = i - 1

\* C19 witness: the load poller's second fetch raised, after one sleep
C19_Witness ==
    /\ poll_kind = "load" /\ poll_pc = "raised"
    /\ Len(fetched) = 2 /\ fetched[2].status = "ApiException"
    /\ fetched[1].status = "RUNNING" /\ sleeps = 1

\* C19 witness for the dump poller
C19_WitnessDump ==
    /\ poll_kind = "dump" /\ poll_pc = "raised"
    /\ Len(fetched) = 2 /\ fetched[2].status = "ApiException"
    /\ sleeps = 1

\* C20: a poll that was started with a positive timeout ends: it returns or
\* raises (SUCCEEDED, FAILED, TimeoutError or the fetch's own error),
\* whatever statuses the backend gives, when every fetch returns and takes
\* time.
C20_PollTerminates ==
    (poll_pc \in {"fetch", "wait"} /\ timeout > 0) ~> PollEnded

\* C20 witness: timeout 2, three non-terminal statuses, and the poll ended
\* by the TimeoutError
C20_Witness ==
    /\ timeout = 2 /\ PollEnded
    /\ Len(fetched) = 3
    /\ \A i \in DOMAIN fetched : fetched[i].status \in NonTerminal
    /\ poll_out.type = "TimeoutError"

\* the position in calls of the first call of an operation, 0 when there is none
FirstCall(op) ==
    IF \E i \in DOMAIN calls : calls[i].op = op
    THEN CHOOSE i \in DOMAIN calls : calls[i].op = op /\ \A j \in 1..(i - 1) : calls[j].op # op
    ELSE 0

\* C21: the load job is submitted at most once, as the last request of the
\* call, and only when the slot response held a self link and the object is
\* complete in the store: the whole-file PUT was answered with success, or
\* every part the splitter gave was put with success and the completion
\* request succeeded; a call whose slot response has no self link ends
\* raised without a job.
C21_SubmitAfterFinalize ==
    LET sub == CallsOf("submit_job_execution") IN
    /\ Len(sub) <= 1
    /\ sub # <<>> =>
           /\ FirstCall("submit_job_execution") = Len(calls)
           /\ upload_response = "self"
           /\ IF SumSeq(source) <= chunk_size
              THEN /\ Len(CallsOf("put_file")) = 1
                   /\ CallsOf("put_file")[1].res = "ok"
                   /\ FirstCall("put_file") < FirstCall("submit_job_execution")
              ELSE /\ gen_pc = "done"
                   /\ Len(CallsOf("put_part")) = Len(yielded)
                   /\ \A i \in DOMAIN calls : ~PartFailed(calls[i])
                   /\ Len(CallsOf("complete_multipart_upload")) = 1
                   /\ CallsOf("complete_multipart_upload")[1].res = "ok"
                   /\ Len(CallsOf("complete_multipart_upload")[1].arg) = Len(yielded)
                   /\ FirstCall("complete_multipart_upload") = Len(calls) - 1
    /\ (UploadOver /\ upload_response \in {"links_none", "no_self"}) =>
           (up_pc = "raised" /\ sub = <<>>)

\* C21 witness: two parts put, the completion acknowledged, the job submitted
C21_Witness ==
    /\ Len(CallsOf("submit_job_execution")) = 1
    /\ Len(CallsOf("put_part")) = 2
    /\ Len(CallsOf("complete_multipart_upload")) = 1

\* C21 witness of the missing self link: the file was put, no job followed
C21_WitnessNoSelf ==
    /\ up_pc = "raised" /\ upload_response = "no_self"
    /\ Len(CallsOf("put_file")) = 1 /\ CallsOf("put_file")[1].res = "ok"
    /\ CallsOf("submit_job_execution") = <<>>

\* C22: run on the same responses, interval, timeout and clock, the load
\* poller and the dump poller are at the same step at every point: they
\* have made the same fetches and as many sleeps, read the same elapsed
\* time, and end together, with outcomes that correspond: True with a plain
\* return, False with the job-failure Exception, TimeoutError with
\* TimeoutError, the fetch's error with the fetch's error.
C22_PollersAgree ==
    /\ d_fetched = fetched /\ d_sleeps = sleeps /\ d_elapsed = elapsed
    /\ poll_pc \in {"idle", "fetch", "wait"} => d_pc = poll_pc
    /\ PollEnded =>
           /\ d_pc \in {"returned", "raised"}
           /\ poll_out.type = "True" <=> (d_pc = "returned" /\ d_out.type = "None")
           /\ poll_out.type = "False" <=>
                  (d_pc = "raised" /\ d_out = Err("Exception", LastFetched.message))
           /\ poll_out.type = "TimeoutError" <=> d_out.type = "TimeoutError"
           /\ poll_out.type = "ApiException" <=> d_out.type = "ApiException"
           /\ poll_out.type \in {"True", "False", "TimeoutError", "ApiException"}

\* C22 witness: both pollers timed out at the same check, after two fetches
\* and one sleep each
C22_Witness ==
    /\ poll_pc = "raised" /\ d_pc = "raised"
    /\ poll_out.type = "TimeoutError" /\ d_out.type = "TimeoutError"
    /\ Len(fetched) = 2 /\ Len(d_fetched) = 2
    /\ sleeps = 1 /\ d_sleeps = 1

\* C22 witness of the failed job: False on one side, the Exception on the other
C22_WitnessFailed ==
    /\ poll_pc = "returned" /\ poll_out.type = "False"
    /\ d_pc = "raised" /\ d_out = Err("Exception", "m2")
    /\ Len(d_fetched) = 3

\* C23: a split that was asked for after the release of the session, with
\* no new acquisition, ends at its first step with the usage error of a
\* splitter never acquired, having yielded nothing and created no part file.
C23_SplitAfterRelease ==
    (split_in = "released" /\ gen_pc # "created") =>
        /\ gen_pc = "raised"
        /\ gen_err = "RuntimeError_context_manager"
        /\ yielded = <<>>

\* what the code does instead when the release removed the directory: the
\* split of an existing file with rows fails in open() of part 1
C23_Observed ==
    /\ split_in = "released" /\ session = "released"
    /\ file_exists /\ Len(source) >= 2
    /\ gen_pc = "raised" /\ gen_err = "FileNotFoundError"
    /\ files = NoFiles

\* and when a deletion failed in the release, the split runs and yields
C23_ObservedParts ==
    /\ split_in = "released" /\ session = "released"
    /\ gen_pc = "done" /\ yielded # <<>>

\* C24: a download request that got no response or a non-success status
\* makes the dump raise and leaves the output file as it was, present or
\* absent; the file is only written when the download was answered with
\* success.
C24_FailedDownloadKeepsFile ==
    LET dl == CallsOf("download") IN
    /\ (dl # <<>> /\ dl[1].res # "ok") =>
           /\ dump_pc = "raised"
           /\ dump_err.type = "Exception"
           /\ OutFileUntouched
    /\ out_file \in {"new", "partial"} => (dl # <<>> /\ dl[1].res = "ok")

\* C24 witness: a file was there, the download got a non-success status,
\* the dump has raised and the file is the old one
C24_Witness ==
    /\ out_file = "old" /\ dump_pc = "raised"
    /\ CallsOf("download") # <<>> /\ CallsOf("download")[1].res = "HTTPError"

\* C25: called with poll_job false, upload_data makes no status fetch and
\* no sleep, and has returned as soon as the job submission succeeded;
\* called with poll_job true, it has returned only when the poller returned
\* on a SUCCEEDED status.
C25_PollOnlyWhenAsked ==
    /\ (up_pc # "idle" /\ ~poll_job) =>
           /\ fetched = <<>> /\ sleeps = 0 /\ poll_pc = "idle"
           /\ (CallsOf("submit_job_execution") # <<>>
                   /\ CallsOf("submit_job_execution")[1].res = "ok") => up_pc = "returned"
    /\ (up_pc = "returned" /\ poll_job) =>
           /\ poll_pc = "returned"
           /\ fetched # <<>> /\ LastFetched.status = "SUCCEEDED"
           /\ sleeps = Len(fetched) - 1

\* C25 witness: a multipart upload without waiting has returned, its job
\* submitted, no status fetched
C25_Witness ==
    /\ ~poll_job /\ up_pc = "returned"
    /\ Len(CallsOf("put_part")) >= 2
    /\ CallsOf("submit_job_execution") # <<>>
    /\ fetched = <<>>

\* C25 witness of the waiting call: returned after RUNNING, then SUCCEEDED
C25_WitnessWaited ==
    /\ poll_job /\ up_pc = "returned"
    /\ Len(fetched) = 2 /\ sleeps = 1

\* C26: whatever the timeout, a poll that left its first fetch has fetched
\* at least once; the timeout is only looked at after a non-terminal status;
\* and a terminal status at the last fetch has ended the poll with the
\* outcome of that status, never with TimeoutError, also when the elapsed
\* time is above the timeout.
C26_TimeoutAfterNonTerminal ==
    /\ poll_pc \in {"wait", "returned", "raised"} => fetched # <<>>
    /\ poll_pc = "wait" => LastFetched.status \in NonTerminal
    /\ (fetched # <<>> /\ IsTerminal(LastFetched)) =>
           /\ PollEnded
           /\ poll_out = IF LastFetched.status = "SUCCEEDED"
                         THEN OnSucceeded(poll_kind)
                         ELSE OnFailed(poll_kind, LastFetched.message)

\* C26 witness: timeout 1; the job was RUNNING, then FAILED at a fetch that
\* came back after the timeout, and the poll ended with the failure
C26_Witness ==
    /\ timeout = 1 /\ elapsed > timeout
    /\ Len(fetched) = 2
    /\ fetched[1].status = "RUNNING" /\ fetched[2].status = "FAILED"
    /\ PollEnded /\ poll_out = OnFailed(poll_kind, fetched[2].message)

\* C26 witness of the first fetch: it came back with SUCCEEDED when the
\* whole timeout had gone by, and the poll returned
C26_WitnessFirstFetch ==
    /\ timeout = 1 /\ elapsed = 1 /\ sleeps = 0
    /\ Len(fetched) = 1 /\ fetched[1].status = "SUCCEEDED"
    /\ poll_pc = "returned"

\* C27: an emitted part with a part number below N that holds two or more
\* data rows has a byte size, header plus rows, of at most the budget; one
\* that is over the budget holds the header and at most one data row.
C27_OverBudgetOnlyHeaderAndOneRow ==
    \A i \in 1..Len(yielded) :
        yielded[i].part < num_parts =>
            LET lines == yielded[i].lines IN
            /\ Len(DataRows(lines)) >= 2 => HeaderPlusRows(lines) <= chunk_size
            /\ HeaderPlusRows(lines) > chunk_size =>
                   /\ lines # <<>> /\ lines[1] = 1
                   /\ Len(DataRows(lines)) <= 1

\* what the splitter does keep of C27: the bound on the rows of a part that
\* is over the budget, and the budget of a part with two or more rows, by
\* the size of the claim and by the bytes in the file
C27_RowBoundKept ==
    \A i \in 1..Len(yielded) :
        yielded[i].part < num_parts =>
            LET lines == yielded[i].lines IN
            /\ Len(DataRows(lines)) >= 2 =>
                   /\ HeaderPlusRows(lines) <= chunk_size
                   /\ PartBytes(lines) <= chunk_size
            /\ HeaderPlusRows(lines) > chunk_size => Len(DataRows(lines)) <= 1

\* the split that C27 does not describe: a part after the first, below N,
\* over the budget with its single row, and no header in its file
C27_Observed ==
    \E i \in 1..Len(yielded) :
        /\ 1 < yielded[i].part /\ yielded[i].part < num_parts
        /\ HeaderPlusRows(yielded[i].lines) > chunk_size
        /\ Len(yielded[i].lines) = 1 /\ yielded[i].lines[1] # 1

====
